---- MODULE Spec2Model ----
(***************************************************************************)
(* Model of driver/postgres/postgres.go: the postgres Driver of migrate.   *)
(*                                                                         *)
(* One Driver, one database.  Migrate runs as its own goroutine, one run   *)
(* at a time; SetSimulate may be called by the caller at any moment,       *)
(* Version between two runs.  The database is modelled by the committed    *)
(* contents of schema_migrations and by the private view of the            *)
(* transaction of the run in flight.                                       *)
(***************************************************************************)
EXTENDS Integers, Sequences, FiniteSets, TLC

\* ---------------------------------------------------------------- bounds
MaxVersion == 1      \* file versions are 0..MaxVersion
MaxRuns    == 2      \* Migrate calls in one behaviour
ChanCap    == 1      \* events the progress channel holds before a send blocks
ContentLen == 2      \* length of the file's content (the SQL body)

Versions   == 0..MaxVersion
Up         == "up"
Down       == "down"
Directions == {Up, Down, "none"}   \* direction.Up, direction.Down, any other value

VARIABLES
    simulate,      \* driver.simulate
    table,         \* committed schema_migrations: [exists, rows], rows[v] = number of rows of version v
    tx,            \* the transaction of the run in flight: [state, exists, rows], its view of
                   \* the table; sim records driver.simulate at the moment it was begun
    pc,            \* position of Migrate
    f,             \* the file.File argument of the run
    sent,          \* events sent on pipe in this run, in order
    nrecv,         \* how many of them the consumer has received
    closeCount,    \* number of close(pipe) calls in this run
    consumerDone,  \* the consumer has seen the channel closed
    txlog,         \* calls this run made on driver.db, tx and f.ReadContent, with their outcome
    errWhat,       \* which statement's error is pending emission
    bodyErr,       \* the error returned by the body's tx.Exec
    simAtStart,    \* driver.simulate when the run started
    tableAtStart,  \* committed table when the run started
    runs,          \* Migrate calls so far
    verRes,        \* result of the last Version call: [called, version, err]
    verAt          \* committed table the last Version call queried

vars == <<simulate, table, tx, pc, f, sent, nrecv, closeCount, consumerDone, txlog,
          errWhat, bodyErr, simAtStart, tableAtStart, runs, verRes, verAt>>

\* ---------------------------------------------------------------- values
NoRows == [v \in Versions |-> 0]
NoTx   == [state |-> "none", exists |-> FALSE, rows |-> NoRows, sim |-> FALSE]

\* Events on pipe.  ver is the version written into the statement text of a
\* diagnostic string (INSERT ... VALUES (v), DELETE ... WHERE version=v), -1 for
\* the events that carry none.
FileEvent      == [type |-> "file",  what |-> "file", loc |-> FALSE, offset |-> 0, ver |-> -1]
Diag(q)        == [type |-> "diag",  what |-> q,      loc |-> FALSE, offset |-> 0,
                   ver |-> IF q \in {"insert", "delete"} THEN f.Version ELSE -1]
Err(w)         == [type |-> "error", what |-> w,      loc |-> FALSE, offset |-> 0, ver |-> -1]
ErrAt(w, off)  == [type |-> "error", what |-> w,      loc |-> TRUE,  offset |-> off, ver |-> -1]

\* the content ReadContent loads into f.Content
FileContent    == [i \in 1..ContentLen |-> "x"]

Call(op, ok)   == [op |-> op, ok |-> ok]

\* pq.Error.Position values the engine may report, as character sequences
Positions == {<< >>, <<"0">>, <<"1">>, <<"2">>, <<"x">>, <<"-", "1">>}
\* errors tx.Exec may return for the body: a *pq.Error with a Position, or another error type
BodyErrors == [pq : {TRUE}, pos : Positions] \cup {[pq |-> FALSE, pos |-> << >>]}
NoBodyErr  == [pq |-> TRUE, pos |-> << >>]

\* ---------------------------------------------------------------- strconv.Atoi
IsDigit(c) == c \in {"0", "1", "2", "3", "4", "5", "6", "7", "8", "9"}

DigitVal(c) ==
    CASE c = "0" -> 0 [] c = "1" -> 1 [] c = "2" -> 2 [] c = "3" -> 3 [] c = "4" -> 4
      [] c = "5" -> 5 [] c = "6" -> 6 [] c = "7" -> 7 [] c = "8" -> 8 [] OTHER -> 9

RECURSIVE DigitsVal(_)
DigitsVal(s) ==
    IF s = << >> THEN 0
    ELSE 10 * DigitsVal(SubSeq(s, 1, Len(s) - 1)) + DigitVal(s[Len(s)])

\* strconv.Atoi: [ok, val]; an optional sign followed by at least one digit
Atoi(s) ==
    LET signed == Len(s) > 0 /\ s[1] \in {"-", "+"}
        digits == IF signed THEN Tail(s) ELSE s
    IN  IF digits = << >> \/ \E i \in 1..Len(digits) : ~IsDigit(digits[i])
        THEN [ok |-> FALSE, val |-> 0]
        ELSE [ok |-> TRUE,
              val |-> IF signed /\ s[1] = "-" THEN 0 - DigitsVal(digits) ELSE DigitsVal(digits)]

\* ---------------------------------------------------------------- channel
CanSend == Len(sent) - nrecv < ChanCap

\* pipe <- e
Send(e) == CanSend /\ sent' = Append(sent, e)

\* ---------------------------------------------------------------- Init
Init ==
    /\ simulate = FALSE
    /\ table = [exists |-> FALSE, rows |-> NoRows]
    /\ tx = NoTx
    /\ pc = "idle"
    /\ f = [Version |-> 0, Direction |-> Up, Content |-> << >>]
    /\ sent = << >>
    /\ nrecv = 0
    /\ closeCount = 0
    /\ consumerDone = FALSE
    /\ txlog = << >>
    /\ errWhat = "none"
    /\ bodyErr = NoBodyErr
    /\ simAtStart = FALSE
    /\ tableAtStart = [exists |-> FALSE, rows |-> NoRows]
    /\ runs = 0
    /\ verRes = [called |-> FALSE, version |-> 0, err |-> FALSE]
    /\ verAt = [exists |-> FALSE, rows |-> NoRows]

\* ---------------------------------------------------------------- SetSimulate
SetSimulate ==
    /\ pc # "panicked"
    /\ simulate' = TRUE
    /\ UNCHANGED <<table, tx, pc, f, sent, nrecv, closeCount, consumerDone, txlog,
                   errWhat, bodyErr, simAtStart, tableAtStart, runs, verRes, verAt>>

\* The values a read of driver.simulate inside the run may yield: the write of
\* SetSimulate is not synchronised with the goroutine of Migrate, so the read
\* sees the value at the start of the goroutine or the current one.
SimRead == {simAtStart, simulate}

\* ---------------------------------------------------------------- Migrate
\* go driver.Migrate(f, pipe), with a fresh pipe
StartMigrate(v, d) ==
    /\ pc = "idle" \/ (pc = "done" /\ consumerDone)
    /\ runs < MaxRuns
    /\ pc' = "send_file"
    /\ f' = [Version |-> v, Direction |-> d, Content |-> << >>]
    /\ sent' = << >>
    /\ nrecv' = 0
    /\ closeCount' = 0
    /\ consumerDone' = FALSE
    /\ txlog' = << >>
    /\ tx' = NoTx
    /\ errWhat' = "none"
    /\ bodyErr' = NoBodyErr
    /\ simAtStart' = simulate
    /\ tableAtStart' = table
    /\ runs' = runs + 1
    /\ verRes' = [called |-> FALSE, version |-> 0, err |-> FALSE]
    /\ verAt' = [exists |-> FALSE, rows |-> NoRows]
    /\ UNCHANGED <<simulate, table>>

\* pipe <- f
SendFile ==
    /\ pc = "send_file"
    /\ Send(FileEvent)
    /\ pc' = "begin"
    /\ UNCHANGED <<simulate, table, tx, f, nrecv, closeCount, consumerDone, txlog,
                   errWhat, bodyErr, simAtStart, tableAtStart, runs, verRes, verAt>>

\* tx, err := driver.db.Begin()
Begin ==
    /\ pc = "begin"
    /\ \E ok \in BOOLEAN :
         /\ txlog' = Append(txlog, Call("begin", ok))
         /\ IF ok
            THEN /\ tx' = [state |-> "open", exists |-> table.exists, rows |-> table.rows,
                         sim |-> simulate]
                 /\ pc' = "create"
            ELSE /\ tx' = tx
                 /\ pc' = "begin_err"
    /\ UNCHANGED <<simulate, table, f, sent, nrecv, closeCount, consumerDone,
                   errWhat, bodyErr, simAtStart, tableAtStart, runs, verRes, verAt>>

\* if err != nil { pipe <- err; return }
SendBeginErr ==
    /\ pc = "begin_err"
    /\ Send(Err("begin"))
    /\ pc' = "closing"
    /\ UNCHANGED <<simulate, table, tx, f, nrecv, closeCount, consumerDone, txlog,
                   errWhat, bodyErr, simAtStart, tableAtStart, runs, verRes, verAt>>

\* Variant: the closure sends the statement text on pipe in both modes (a
\* trace of every statement) and executes it when not simulating.
Exec_EchoAlways(q, okTx, canSucceed, next, errpc) ==
    \E sim \in SimRead :
        /\ Send(Diag(q))
        /\ IF sim
           THEN /\ pc' = next
                /\ UNCHANGED <<tx, txlog, errWhat>>
           ELSE \E ok \in BOOLEAN :
                /\ ok => canSucceed
                /\ txlog' = Append(txlog, Call(q, ok))
                /\ IF ok
                   THEN /\ tx' = okTx
                        /\ pc' = next
                        /\ errWhat' = errWhat
                   ELSE /\ tx' = tx
                        /\ pc' = errpc
                        /\ errWhat' = q

\* Variant: the simulate branch lacks its return, the statement is sent on
\* pipe and then executed all the same.
Exec_SimFallsThrough(q, okTx, canSucceed, next, errpc) ==
    \E sim \in SimRead :
        /\ IF sim THEN Send(Diag(q)) ELSE sent' = sent
        /\ \E ok \in BOOLEAN :
             /\ ok => canSucceed
             /\ txlog' = Append(txlog, Call(q, ok))
             /\ IF ok
                THEN /\ tx' = okTx
                     /\ pc' = next
                     /\ errWhat' = errWhat
                ELSE /\ tx' = tx
                     /\ pc' = errpc
                     /\ errWhat' = q

\* exec(q, args...): the closure of Migrate.  In simulate mode the statement text
\* is sent on pipe and (nil, nil) returned; otherwise tx.Exec runs it.  okTx is
\* the transaction's view after a successful execution, canSucceed whether the
\* engine can accept the statement, next / errpc where Migrate continues.
Exec(q, okTx, canSucceed, next, errpc) ==
    \E sim \in SimRead :
        IF sim
        THEN /\ Send(Diag(q))
             /\ pc' = next
             /\ UNCHANGED <<tx, txlog, errWhat>>
        ELSE \E ok \in BOOLEAN :
             /\ ok => canSucceed
             /\ txlog' = Append(txlog, Call(q, ok))
             /\ sent' = sent
             /\ IF ok
                THEN /\ tx' = okTx
                     /\ pc' = next
                     /\ errWhat' = errWhat
                ELSE /\ tx' = tx
                     /\ pc' = errpc
                     /\ errWhat' = q

\* Variant: after the table creation Migrate goes straight to the content,
\* the branch on the direction is left out.
ExecCreate_NoBookkeeping ==
    /\ pc = "create"
    /\ Exec("create", [tx EXCEPT !.exists = TRUE], TRUE, "read_content", "exec_err")
    /\ UNCHANGED <<simulate, table, f, nrecv, closeCount, consumerDone,
                   bodyErr, simAtStart, tableAtStart, runs, verRes, verAt>>

\* exec("CREATE TABLE IF NOT EXISTS schema_migrations (version int not null primary key);")
ExecCreate ==
    /\ pc = "create"
    /\ Exec("create", [tx EXCEPT !.exists = TRUE], TRUE, "bookkeeping", "exec_err")
    /\ UNCHANGED <<simulate, table, f, nrecv, closeCount, consumerDone,
                   bodyErr, simAtStart, tableAtStart, runs, verRes, verAt>>

\* Variant: the version column is no primary key, any INSERT into the table succeeds.
InsertOk_NoKey(t, v) == t.exists

\* INSERT INTO schema_migrations (version) VALUES (v): the primary key rejects a
\* version that already has a row; the table must exist.
InsertOk(t, v) == t.exists /\ t.rows[v] = 0
Inserted(t, v) == [t EXCEPT !.rows[v] = @ + 1]

\* DELETE FROM schema_migrations WHERE version = v
DeleteOk(t, v) == t.exists
Deleted(t, v)  == [t EXCEPT !.rows[v] = 0]

\* Variant: the two directions are mixed up, Up deletes and Down inserts.
ExecBookkeeping_Swapped ==
    /\ pc = "bookkeeping"
    /\ IF f.Direction = Down
       THEN Exec("insert", Inserted(tx, f.Version), InsertOk(tx, f.Version),
                 "read_content", "exec_err")
       ELSE IF f.Direction = Up
       THEN Exec("delete", Deleted(tx, f.Version), DeleteOk(tx, f.Version),
                 "read_content", "exec_err")
       ELSE /\ pc' = "read_content"
            /\ UNCHANGED <<tx, txlog, errWhat, sent>>
    /\ UNCHANGED <<simulate, table, f, nrecv, closeCount, consumerDone,
                   bodyErr, simAtStart, tableAtStart, runs, verRes, verAt>>

\* Variant: a plain else in place of else if f.Direction == direction.Down:
\* every direction that is not Up deletes.
ExecBookkeeping_ElseDelete ==
    /\ pc = "bookkeeping"
    /\ IF f.Direction = Up
       THEN Exec("insert", Inserted(tx, f.Version), InsertOk(tx, f.Version),
                 "read_content", "exec_err")
       ELSE Exec("delete", Deleted(tx, f.Version), DeleteOk(tx, f.Version),
                 "read_content", "exec_err")
    /\ UNCHANGED <<simulate, table, f, nrecv, closeCount, consumerDone,
                   bodyErr, simAtStart, tableAtStart, runs, verRes, verAt>>

\* if f.Direction == direction.Up {...} else if f.Direction == direction.Down {...}
ExecBookkeeping ==
    /\ pc = "bookkeeping"
    /\ IF f.Direction = Up
       THEN Exec("insert", Inserted(tx, f.Version), InsertOk(tx, f.Version),
                 "read_content", "exec_err")
       ELSE IF f.Direction = Down
       THEN Exec("delete", Deleted(tx, f.Version), DeleteOk(tx, f.Version),
                 "read_content", "exec_err")
       ELSE /\ pc' = "read_content"
            /\ UNCHANGED <<tx, txlog, errWhat, sent>>
    /\ UNCHANGED <<simulate, table, f, nrecv, closeCount, consumerDone,
                   bodyErr, simAtStart, tableAtStart, runs, verRes, verAt>>

\* pipe <- err after a failed CREATE TABLE, INSERT or DELETE
SendExecErr ==
    /\ pc = "exec_err"
    /\ Send(Err(errWhat))
    /\ pc' = "rollback"
    /\ UNCHANGED <<simulate, table, tx, f, nrecv, closeCount, consumerDone, txlog,
                   errWhat, bodyErr, simAtStart, tableAtStart, runs, verRes, verAt>>

\* Variant: tx.Commit() called where tx.Rollback() is meant.
Rollback_Commits ==
    /\ pc = "rollback"
    /\ \E ok \in BOOLEAN :
         /\ txlog' = Append(txlog, Call("rollback", ok))
         /\ IF ok
            THEN /\ tx' = [tx EXCEPT !.state = "rolledback"]
                 /\ table' = [exists |-> tx.exists, rows |-> tx.rows]
                 /\ pc' = "closing"
            ELSE /\ tx' = [tx EXCEPT !.state = "rollback_failed"]
                 /\ table' = table
                 /\ pc' = "rollback_err"
    /\ UNCHANGED <<simulate, f, sent, nrecv, closeCount, consumerDone,
                   errWhat, bodyErr, simAtStart, tableAtStart, runs, verRes, verAt>>

\* Variant: the return after the rollback is missing, Migrate goes on to the commit.
Rollback_NoReturn ==
    /\ pc = "rollback"
    /\ \E ok \in BOOLEAN :
         /\ txlog' = Append(txlog, Call("rollback", ok))
         /\ IF ok
            THEN /\ tx' = [tx EXCEPT !.state = "rolledback"]
                 /\ pc' = "commit"
            ELSE /\ tx' = [tx EXCEPT !.state = "rollback_failed"]
                 /\ pc' = "rollback_err"
    /\ UNCHANGED <<simulate, table, f, sent, nrecv, closeCount, consumerDone,
                   errWhat, bodyErr, simAtStart, tableAtStart, runs, verRes, verAt>>

\* if err := tx.Rollback(); err != nil {...}; return
Rollback ==
    /\ pc = "rollback"
    /\ \E ok \in BOOLEAN :
         /\ txlog' = Append(txlog, Call("rollback", ok))
         /\ IF ok
            THEN /\ tx' = [tx EXCEPT !.state = "rolledback"]
                 /\ pc' = "closing"
            ELSE /\ tx' = [tx EXCEPT !.state = "rollback_failed"]
                 /\ pc' = "rollback_err"
    /\ UNCHANGED <<simulate, table, f, sent, nrecv, closeCount, consumerDone,
                   errWhat, bodyErr, simAtStart, tableAtStart, runs, verRes, verAt>>

\* pipe <- err (the rollback's error); return
SendRollbackErr ==
    /\ pc = "rollback_err"
    /\ Send(Err("rollback"))
    /\ pc' = "closing"
    /\ UNCHANGED <<simulate, table, tx, f, nrecv, closeCount, consumerDone, txlog,
                   errWhat, bodyErr, simAtStart, tableAtStart, runs, verRes, verAt>>

\* if err := f.ReadContent(); err != nil
ReadContent ==
    /\ pc = "read_content"
    /\ \E ok \in BOOLEAN :
         /\ txlog' = Append(txlog, Call("read_content", ok))
         /\ f' = IF ok THEN [f EXCEPT !.Content = FileContent] ELSE f
         /\ pc' = IF ok THEN "body" ELSE "content_err"
    /\ UNCHANGED <<simulate, table, tx, sent, nrecv, closeCount, consumerDone,
                   errWhat, bodyErr, simAtStart, tableAtStart, runs, verRes, verAt>>

\* Variant: the channel is closed at the end of the function body instead of by
\* defer, so this early return leaves without closing.
SendContentErr_NoClose ==
    /\ pc = "content_err"
    /\ Send(Err("content"))
    /\ pc' = "done"
    /\ UNCHANGED <<simulate, table, tx, f, nrecv, closeCount, consumerDone, txlog,
                   errWhat, bodyErr, simAtStart, tableAtStart, runs, verRes, verAt>>

\* Variant: the return after pipe <- err is missing, Migrate goes on to the body.
SendContentErr_NoReturn ==
    /\ pc = "content_err"
    /\ Send(Err("content"))
    /\ pc' = "body"
    /\ UNCHANGED <<simulate, table, tx, f, nrecv, closeCount, consumerDone, txlog,
                   errWhat, bodyErr, simAtStart, tableAtStart, runs, verRes, verAt>>

\* Variant: the content-load failure is handled like a statement failure, with
\* a rollback attempt before the return.
SendContentErr_Rollback ==
    /\ pc = "content_err"
    /\ Send(Err("content"))
    /\ pc' = "rollback"
    /\ UNCHANGED <<simulate, table, tx, f, nrecv, closeCount, consumerDone, txlog,
                   errWhat, bodyErr, simAtStart, tableAtStart, runs, verRes, verAt>>

\* pipe <- err; return   (no rollback: the transaction stays open)
SendContentErr ==
    /\ pc = "content_err"
    /\ Send(Err("content"))
    /\ pc' = "closing"
    /\ UNCHANGED <<simulate, table, tx, f, nrecv, closeCount, consumerDone, txlog,
                   errWhat, bodyErr, simAtStart, tableAtStart, runs, verRes, verAt>>

\* Variant: the body is run with tx.Exec directly, not through the exec closure.
ExecBody_Direct ==
    /\ pc = "body"
    /\ \E ok \in BOOLEAN :
         /\ txlog' = Append(txlog, Call("body", ok))
         /\ IF ok
            THEN /\ pc' = "commit"
                 /\ errWhat' = errWhat
                 /\ bodyErr' = bodyErr
            ELSE /\ pc' = "body_err"
                 /\ errWhat' = "body"
                 /\ \E e \in BodyErrors : bodyErr' = e
    /\ UNCHANGED <<simulate, table, tx, f, sent, nrecv, closeCount, consumerDone,
                   simAtStart, tableAtStart, runs, verRes, verAt>>

\* exec(string(f.Content))
ExecBody ==
    /\ pc = "body"
    /\ Exec("body", tx, TRUE, "commit", "body_err")
    /\ \E e \in BodyErrors : bodyErr' = IF pc' = "body_err" THEN e ELSE bodyErr
    /\ UNCHANGED <<simulate, table, f, nrecv, closeCount, consumerDone,
                   simAtStart, tableAtStart, runs, verRes, verAt>>

\* pqErr := err.(*pq.Error): panics when the error is of another type; then
\* offset, err := strconv.Atoi(pqErr.Position) and one of the two messages.
BodyErrEvent(e) ==
    LET a == Atoi(e.pos)
    IN  IF a.ok /\ a.val >= 0 THEN ErrAt("body", a.val - 1) ELSE Err("body")

TranslateBodyErr ==
    /\ pc = "body_err"
    /\ IF bodyErr.pq
       THEN /\ Send(BodyErrEvent(bodyErr))
            /\ pc' = "rollback"
       ELSE /\ pc' = "closing_panic"
            /\ sent' = sent
    /\ UNCHANGED <<simulate, table, tx, f, nrecv, closeCount, consumerDone, txlog,
                   errWhat, bodyErr, simAtStart, tableAtStart, runs, verRes, verAt>>

\* if err := tx.Commit(); err != nil.  A failed commit leaves the database in
\* whichever of the two states the engine reached.
Commit ==
    /\ pc = "commit"
    /\ \E ok \in BOOLEAN :
         /\ txlog' = Append(txlog, Call("commit", ok))
         /\ IF ok
            THEN /\ table' = [exists |-> tx.exists, rows |-> tx.rows]
                 /\ tx' = [tx EXCEPT !.state = "committed"]
                 /\ pc' = "closing"
            ELSE /\ table' \in {table, [exists |-> tx.exists, rows |-> tx.rows]}
                 /\ tx' = [tx EXCEPT !.state = "commit_failed"]
                 /\ pc' = "commit_err"
    /\ UNCHANGED <<simulate, f, sent, nrecv, closeCount, consumerDone,
                   errWhat, bodyErr, simAtStart, tableAtStart, runs, verRes, verAt>>

\* Variant: the channel is closed at the end of the function body instead of by
\* defer, so the return after a failed commit leaves without closing.
SendCommitErr_NoClose ==
    /\ pc = "commit_err"
    /\ Send(Err("commit"))
    /\ pc' = "done"
    /\ UNCHANGED <<simulate, table, tx, f, nrecv, closeCount, consumerDone, txlog,
                   errWhat, bodyErr, simAtStart, tableAtStart, runs, verRes, verAt>>

\* Variant: a failed commit is handled like a failed statement, with a
\* rollback attempt before the return.
SendCommitErr_Rollback ==
    /\ pc = "commit_err"
    /\ Send(Err("commit"))
    /\ pc' = "rollback"
    /\ UNCHANGED <<simulate, table, tx, f, nrecv, closeCount, consumerDone, txlog,
                   errWhat, bodyErr, simAtStart, tableAtStart, runs, verRes, verAt>>

\* pipe <- err; return
SendCommitErr ==
    /\ pc = "commit_err"
    /\ Send(Err("commit"))
    /\ pc' = "closing"
    /\ UNCHANGED <<simulate, table, tx, f, nrecv, closeCount, consumerDone, txlog,
                   errWhat, bodyErr, simAtStart, tableAtStart, runs, verRes, verAt>>

\* defer close(pipe): runs on return and on panic; after a panic the process dies
DeferClose ==
    /\ pc \in {"closing", "closing_panic"}
    /\ closeCount' = closeCount + 1
    /\ pc' = IF pc = "closing" THEN "done" ELSE "panicked"
    /\ UNCHANGED <<simulate, table, tx, f, sent, nrecv, consumerDone, txlog,
                   errWhat, bodyErr, simAtStart, tableAtStart, runs, verRes, verAt>>

\* ---------------------------------------------------------------- consumer
\* the consuming loop: v, ok := <-pipe
Recv ==
    /\ pc # "panicked"
    /\ nrecv < Len(sent)
    /\ nrecv' = nrecv + 1
    /\ UNCHANGED <<simulate, table, tx, pc, f, sent, closeCount, consumerDone, txlog,
                   errWhat, bodyErr, simAtStart, tableAtStart, runs, verRes, verAt>>

RecvClosed ==
    /\ pc # "panicked"
    /\ closeCount > 0
    /\ nrecv = Len(sent)
    /\ ~consumerDone
    /\ consumerDone' = TRUE
    /\ UNCHANGED <<simulate, table, tx, pc, f, sent, nrecv, closeCount, txlog,
                   errWhat, bodyErr, simAtStart, tableAtStart, runs, verRes, verAt>>

\* ---------------------------------------------------------------- Version
Present(rows) == {v \in Versions : rows[v] > 0}

RECURSIVE Rep(_, _)
Rep(v, n) == IF n = 0 THEN << >> ELSE <<v>> \o Rep(v, n - 1)

\* SELECT version FROM schema_migrations ORDER BY version DESC
RECURSIVE RowsDesc(_, _)
RowsDesc(rows, v) ==
    IF v < 0 THEN << >> ELSE Rep(v, rows[v]) \o RowsDesc(rows, v - 1)

\* Variant: the rows are taken in ascending order (ORDER BY version, no DESC).
VersionResult_Asc(t, qfail) ==
    LET sel == RowsDesc(t.rows, MaxVersion)
    IN  IF qfail \/ ~t.exists THEN [called |-> TRUE, version |-> 0, err |-> TRUE]
        ELSE IF sel = << >>   THEN [called |-> TRUE, version |-> 0, err |-> FALSE]
        ELSE [called |-> TRUE, version |-> sel[Len(sel)], err |-> FALSE]

\* QueryRow(... LIMIT 1).Scan(&version) and the switch on err
VersionResult(t, qfail) ==
    LET sel == RowsDesc(t.rows, MaxVersion)
    IN  IF qfail \/ ~t.exists THEN [called |-> TRUE, version |-> 0, err |-> TRUE]
        ELSE IF sel = << >>   THEN [called |-> TRUE, version |-> 0, err |-> FALSE]
        ELSE [called |-> TRUE, version |-> Head(sel), err |-> FALSE]

\* The caller asks for the version between two runs, one migration at a time;
\* the result is kept until the next run starts.
Version ==
    /\ pc \in {"idle", "done"}
    /\ \E qfail \in BOOLEAN :
         /\ verRes' = VersionResult(table, qfail)
         /\ verAt' = [exists |-> table.exists /\ ~qfail, rows |-> table.rows]
            \* verAt.exists: the table existed and the query did not fail
    /\ UNCHANGED <<simulate, table, tx, pc, f, sent, nrecv, closeCount, consumerDone, txlog,
                   errWhat, bodyErr, simAtStart, tableAtStart, runs>>

\* ---------------------------------------------------------------- Next
MigrateStep ==
    \/ SendFile
    \/ Begin
    \/ SendBeginErr
    \/ ExecCreate
    \/ ExecBookkeeping
    \/ SendExecErr
    \/ Rollback
    \/ SendRollbackErr
    \/ ReadContent
    \/ SendContentErr
    \/ ExecBody
    \/ TranslateBodyErr
    \/ Commit
    \/ SendCommitErr
    \/ DeferClose

Next ==
    \/ \E v \in Versions, d \in Directions : StartMigrate(v, d)
    \/ MigrateStep
    \/ Recv
    \/ RecvClosed
    \/ SetSimulate
    \/ Version

Spec == Init /\ [][Next]_vars

\* Migrate's goroutine keeps running, the database calls return and the
\* consumer keeps receiving.
LiveSpec == Spec /\ WF_vars(MigrateStep) /\ WF_vars(Recv) /\ WF_vars(RecvClosed)

\* ================================================================ properties
Terminal  == pc \in {"done", "panicked"}
Closed    == closeCount > 0
ErrIdx    == {i \in 1..Len(sent) : sent[i].type = "error"}
DiagIdx   == {i \in 1..Len(sent) : sent[i].type = "diag"}
NumErrors == Cardinality(ErrIdx)
Stmts     == {"create", "insert", "delete", "body"}
ExecIdx   == {i \in 1..Len(txlog) : txlog[i].op \in Stmts}
Called(op)    == \E i \in 1..Len(txlog) : txlog[i].op = op
CalledOk(op)  == \E i \in 1..Len(txlog) : txlog[i] = Call(op, TRUE)
CalledErr(op) == \E i \in 1..Len(txlog) : txlog[i] = Call(op, FALSE)

\* C1: on every exit path of Migrate the progress channel is closed exactly
\* once (never twice, and closed when Migrate has exited), and nothing is sent
\* on the channel of a run after it was closed.
C1_ClosedExactlyOnce ==
    /\ [](closeCount <= 1 /\ (Terminal => closeCount = 1))
    /\ [][(closeCount > 0 /\ runs' = runs) => (sent' = sent /\ closeCount' = closeCount)]_vars

\* A run that ended on the commit-failure path, channel closed once.
C1_Witness ==
    /\ pc = "done" /\ closeCount = 1
    /\ CalledErr("commit")
    /\ sent[Len(sent)] = Err("commit")

\* C2 as stated: a run's events hold at most one error event, and no event
\* follows an error event.
C2_AtMostOneError ==
    /\ NumErrors <= 1
    /\ \A i \in ErrIdx : i = Len(sent)

\* C2 amended: a run's events hold no error, or one error of the run itself,
\* followed at most by the error of the rollback that a failed statement
\* triggers: at most two errors, the second is the rollback's and comes right
\* after the statement's, and nothing else follows an error.
C2_OneErrorPlusRollbackError ==
    /\ NumErrors <= 2
    /\ \A i \in ErrIdx :
         /\ i < Len(sent) =>
              /\ i + 1 = Len(sent)
              /\ sent[i].what \in Stmts
              /\ sent[i + 1] = Err("rollback")
              /\ CalledErr("rollback")
         /\ sent[i].what = "rollback" => (i - 1) \in ErrIdx

\* A drained, closed run with two error events.
C2_Witness ==
    /\ pc = "done" /\ consumerDone
    /\ NumErrors = 2
    /\ sent[Len(sent)] = Err("rollback")

\* C3: a run that has not reached commit (failure at table creation, at the
\* bookkeeping write, at content load or in the body) leaves the committed
\* schema_migrations, and so what Version returns, as it was before the run.
C3_FailedRunLeavesTable ==
    (pc \notin {"idle"} /\ ~Called("commit")) =>
        /\ table = tableAtStart
        /\ Present(table.rows) = Present(tableAtStart.rows)
        /\ VersionResult(table, FALSE) = VersionResult(tableAtStart, FALSE)

\* An Apply whose body failed and was rolled back: the transaction had inserted
\* the version, the committed table does not hold it.
C3_Witness ==
    /\ pc = "done"
    /\ f.Direction = Up
    /\ CalledErr("body") /\ CalledOk("rollback")
    /\ tx.rows[f.Version] = 1
    /\ table.rows[f.Version] = 0

C5_NoErrorIffCommitted ==
    /\ (Closed /\ NumErrors = 0) =>
          /\ tx.state = "committed"
          /\ ~simulate =>
               /\ CalledOk("create")
               /\ f.Direction = Up   => CalledOk("insert")
               /\ f.Direction = Down => CalledOk("delete")
               /\ CalledOk("body")
    /\ (Closed /\ tx.state # "committed") => NumErrors >= 1

C7_SimulateNoMutation ==
    (pc # "idle" /\ simAtStart) =>
        /\ ExecIdx = {}
        /\ tx.state # "none" => tx.rows = tableAtStart.rows
        /\ table = tableAtStart

\* A simulated Revert of an applied version, committed: three statements were
\* emitted and the row is still there.
C7_Witness ==
    /\ pc = "done" /\ simAtStart
    /\ f.Direction = Down
    /\ CalledOk("commit")
    /\ Cardinality(DiagIdx) = 3
    /\ table.rows[f.Version] = 1

\* C8: a run whose transaction was begun before SetSimulate emits no
\* diagnostic string, and no run both executes a statement on its transaction
\* and emits a diagnostic string.
C8_OpenTxUnaffected ==
    /\ (tx.state # "none" /\ ~tx.sim) => DiagIdx = {}
    /\ DiagIdx = {} \/ ExecIdx = {}

\* C9: every run of Migrate that has begun closes its channel, and the
\* consumer that keeps receiving sees the channel closed (or the process has
\* died of the panic, channel closed).
C9_RunTerminates ==
    (pc = "send_file") ~> (closeCount = 1 /\ (consumerDone \/ pc = "panicked"))

\* A consumer that drained a run which ended with a failed rollback.
C9_Witness ==
    /\ pc = "done" /\ consumerDone /\ closeCount = 1
    /\ tx.state = "rollback_failed"
    /\ nrecv = Len(sent) /\ Len(sent) = 3

\* C10 as stated: Version returns the maximum version present, and the result
\* for a table without rows, version 0 without error, is returned for no
\* table that holds a row; a failed query returns an error.
C10_EmptyDistinguishable ==
    verRes.called =>
        /\ (verAt.exists /\ Present(verAt.rows) # {}) =>
              /\ ~verRes.err
              /\ verRes.version \in Present(verAt.rows)
              /\ \A v \in Present(verAt.rows) : v <= verRes.version
        /\ (verAt.exists /\ Present(verAt.rows) = {}) => (verRes.version = 0 /\ ~verRes.err)
        /\ (verRes.version = 0 /\ ~verRes.err) => Present(verAt.rows) = {}
        /\ ~verAt.exists => verRes.err

\* C10 amended: Version returns the maximum version present; for a table
\* without rows it returns version 0 without error, the same result as for a
\* table whose maximum version is 0, so only a result above 0 tells that a
\* version is applied; a failed query returns an error and version 0.
C10_VersionIsMax ==
    verRes.called =>
        /\ (verAt.exists /\ Present(verAt.rows) # {}) =>
              /\ ~verRes.err
              /\ verRes.version \in Present(verAt.rows)
              /\ \A v \in Present(verAt.rows) : v <= verRes.version
        /\ (verAt.exists /\ Present(verAt.rows) = {}) => (verRes.version = 0 /\ ~verRes.err)
        /\ (verRes.version > 0 /\ ~verRes.err) => Present(verAt.rows) # {}
        /\ ~verAt.exists => (verRes.err /\ verRes.version = 0)

\* Version called with two versions applied returns the larger one.
C10_Witness ==
    /\ verRes.called /\ ~verRes.err
    /\ Cardinality(Present(verAt.rows)) = 2
    /\ verRes.version = MaxVersion

\* ---------------------------------------------------------------- steps of a run
\* A statement is emitted (simulate mode) or executed on the transaction.
Emitted(q)   == \E i \in DiagIdx : sent[i].what = q
Performed(q) == CalledOk(q) \/ Emitted(q)
Attempted(q) == Called(q) \/ Emitted(q)
Times(q)     == Cardinality({i \in 1..Len(txlog) : txlog[i].op = q})
                  + Cardinality({i \in DiagIdx : sent[i].what = q})
\* the bookkeeping statement of the file's direction
BookOp       == IF f.Direction = Up THEN "insert" ELSE IF f.Direction = Down THEN "delete" ELSE "none"
Steps        == {"begin", "create", "insert", "delete", "read_content", "body", "commit", "rollback"}
Rank(q) ==
    CASE q = "begin" -> 1 [] q = "create" -> 2 [] q \in {"insert", "delete"} -> 3
      [] q = "read_content" -> 4 [] q = "body" -> 5 [] OTHER -> 6
AnyFailed    == \E i \in 1..Len(txlog) : ~txlog[i].ok

\* C11: the steps of a run are strictly sequential.  No step is made twice;
\* nothing is done before a successful begin; the table creation precedes the
\* bookkeeping INSERT/DELETE (the one of the file's direction, none for a
\* direction that is neither Up nor Down); the bookkeeping write precedes the
\* content load, which precedes the body; commit is attempted only after the
\* creation, the bookkeeping write, the load and the body all succeeded and is
\* the last call; a committed run made every step exactly once.
C11_StepsSequential ==
    /\ \A q \in Steps : Times(q) <= 1
    /\ \A i, j \in 1..Len(txlog) : i < j => Rank(txlog[i].op) < Rank(txlog[j].op)
    /\ \A i, j \in DiagIdx : i < j => Rank(sent[i].what) < Rank(sent[j].what)
    /\ (\E q \in Steps \ {"begin"} : Attempted(q)) => txlog[1] = Call("begin", TRUE)
    /\ \A q \in {"insert", "delete"} : Attempted(q) => (q = BookOp /\ Performed("create"))
    /\ Called("read_content") =>
          /\ Performed("create")
          /\ BookOp # "none" => Performed(BookOp)
    /\ Attempted("body") => CalledOk("read_content")
    /\ Called("commit") =>
          /\ Performed("create")
          /\ BookOp # "none" => Performed(BookOp)
          /\ CalledOk("read_content")
          /\ Performed("body")
          /\ txlog[Len(txlog)].op = "commit"
          /\ \A i \in 1..(Len(txlog) - 1) : txlog[i].ok
    /\ tx.state = "committed" =>
          \A q \in {"begin", "create", "read_content", "body", "commit"}
                    \cup ({BookOp} \ {"none"}) : Times(q) = 1

\* A committed real Apply: begin, create, insert, content load, body, commit.
C11_Witness ==
    /\ pc = "done" /\ tx.state = "committed" /\ ~simulate
    /\ f.Direction = Up
    /\ txlog = <<Call("begin", TRUE), Call("create", TRUE), Call("insert", TRUE),
                 Call("read_content", TRUE), Call("body", TRUE), Call("commit", TRUE)>>

\* C12: when the table creation, the bookkeeping write or the body fails,
\* Migrate emits that error first, then attempts rollback exactly once, emits
\* the rollback's error after it if and only if the rollback fails, and ends
\* without attempting commit.
Handled == pc \in {"closing", "closing_panic", "done", "panicked"}

C12_ErrorThenRollback ==
    /\ Called("rollback") =>
          \E q \in Stmts : CalledErr(q) /\ \E i \in ErrIdx : sent[i].what = q
    /\ \A q \in Stmts : (CalledErr(q) /\ Handled) =>
          /\ \E i \in ErrIdx : sent[i].what = q /\ \A j \in ErrIdx : i <= j
          /\ Times("rollback") = 1
          /\ CalledErr("rollback") <=> (sent[Len(sent)] = Err("rollback"))
          /\ NumErrors = IF CalledErr("rollback") THEN 2 ELSE 1
          /\ ~Called("commit")

\* C13: when loading the content fails, Migrate emits that one error and ends
\* without rollback and without commit: the transaction, which holds the
\* bookkeeping write when it was executed, is still open when the channel is
\* closed, and the body is never run.
C13_ContentErrLeavesTxOpen ==
    CalledErr("read_content") =>
        /\ pc \in {"content_err", "closing", "done"}
        /\ txlog[Len(txlog)] = Call("read_content", FALSE)
        /\ ~Called("rollback") /\ ~Called("commit") /\ ~Attempted("body")
        /\ tx.state = "open"
        /\ CalledOk("insert") => tx.rows[f.Version] = tableAtStart.rows[f.Version] + 1
        /\ CalledOk("delete") => tx.rows[f.Version] = 0
        /\ table = tableAtStart
        /\ pc # "content_err" => (NumErrors = 1 /\ sent[Len(sent)] = Err("content"))

\* A closed Apply whose content load failed: the open transaction holds the
\* inserted row, the committed table does not.
C13_Witness ==
    /\ pc = "done" /\ closeCount = 1
    /\ CalledErr("read_content") /\ CalledOk("insert")
    /\ tx.state = "open"
    /\ tx.rows[f.Version] = 1 /\ table.rows[f.Version] = 0

\* C14: a failed begin ends the run with that one error, no statement executed
\* or emitted and no rollback; a failed commit ends the run with the commit
\* error as the only error and no rollback.
C14_TxFailuresTerminal ==
    /\ CalledErr("begin") =>
          /\ pc \in {"begin_err", "closing", "done"}
          /\ txlog = <<Call("begin", FALSE)>>
          /\ tx.state = "none"
          /\ pc # "begin_err" => sent = <<FileEvent, Err("begin")>>
          /\ pc = "begin_err" => sent = <<FileEvent>>
    /\ CalledErr("commit") =>
          /\ pc \in {"commit_err", "closing", "done"}
          /\ txlog[Len(txlog)] = Call("commit", FALSE)
          /\ ~Called("rollback")
          /\ pc # "commit_err" => (NumErrors = 1 /\ sent[Len(sent)] = Err("commit"))
          /\ pc = "commit_err" => NumErrors = 0

\* A drained run whose begin failed: the file, then the error, then close.
C14_Witness ==
    /\ pc = "done" /\ consumerDone
    /\ CalledErr("begin")
    /\ sent = <<FileEvent, Err("begin")>>

\* C15: every failure of the body's execution, whatever error the engine
\* returned, leads to exactly one error event for the body followed by a
\* rollback attempt; the event carries a location if and only if the error has
\* a position that parses as a non-negative number.
BodyErrIdx == {i \in ErrIdx : sent[i].what = "body"}

C15_BodyFailureOneError ==
    (CalledErr("body") /\ Handled) =>
        /\ Cardinality(BodyErrIdx) = 1
        /\ Called("rollback")
        /\ \A i \in BodyErrIdx :
             sent[i].loc <=> (Atoi(bodyErr.pos).ok /\ Atoi(bodyErr.pos).val >= 0)

\* C16: in a run started in simulate mode no statement is executed: each is
\* sent on pipe as a diagnostic string and counts as successful.  Once the
\* content is loaded and the body step is passed, the diagnostic strings are,
\* in this order, create, INSERT (Up) or DELETE (Down) of the file's version,
\* body: exactly three for a file with a direction (the bookkeeping one is
\* absent for a direction that is neither).  The transaction is still begun and
\* committed; the only errors are those of begin, content load and commit, and
\* no rollback is attempted.
IsDiagEvent(e) == e.type = "diag"
DiagSeq == SelectSeq(sent, IsDiagEvent)
DiagOf(q, v) == [type |-> "diag", what |-> q, loc |-> FALSE, offset |-> 0, ver |-> v]
SimExpected ==
    <<DiagOf("create", -1)>>
      \o (IF BookOp = "none" THEN << >> ELSE <<DiagOf(BookOp, f.Version)>>)
      \o <<DiagOf("body", -1)>>

C16_SimulateEmitsStatements ==
    (simAtStart /\ pc # "idle") =>
        /\ ExecIdx = {}
        /\ ~Called("rollback")
        /\ \A i \in ErrIdx : sent[i].what \in {"begin", "content", "commit"}
        /\ NumErrors <= 1
        /\ Len(DiagSeq) <= Len(SimExpected)
        /\ DiagSeq = SubSeq(SimExpected, 1, Len(DiagSeq))
        /\ DiagSeq # << >> => CalledOk("begin")
        /\ pc \in {"commit", "commit_err", "closing", "done"} /\ CalledOk("read_content") =>
              /\ DiagSeq = SimExpected
              /\ f.Direction \in {Up, Down} => Len(DiagSeq) = 3
              /\ pc # "commit" => Called("commit")
        /\ tx.state = "committed" => sent = <<FileEvent>> \o SimExpected

\* A committed simulated Apply: the file, then create, INSERT of the version
\* and the body as diagnostic strings.
C16_Witness ==
    /\ pc = "done" /\ simAtStart /\ CalledOk("commit")
    /\ f.Direction = Up /\ f.Version = MaxVersion
    /\ sent = <<FileEvent, DiagOf("create", -1), DiagOf("insert", MaxVersion), DiagOf("body", -1)>>

\* C17 as stated: the table holds at most one row per version, and a run that
\* applies (Up) a version that already has a row never gets past the
\* bookkeeping INSERT: no content load, no body, no commit, and when it has
\* ended after the table creation the INSERT has failed, a rollback was
\* attempted and the table is as before.
AlreadyApplied == f.Direction = Up /\ tableAtStart.rows[f.Version] >= 1

C17_ReapplyAlwaysFails ==
    /\ \A v \in Versions : table.rows[v] <= 1
    /\ (pc # "idle" /\ AlreadyApplied) =>
          /\ ~Called("read_content") /\ ~Attempted("body") /\ ~Called("commit")
          /\ table = tableAtStart
          /\ (Terminal /\ Performed("create")) => (CalledErr("insert") /\ Called("rollback"))

\* C17 amended: the table (and every transaction's view of it) holds at most
\* one row per version, and a run that applies a version that already has a
\* row and executes its INSERT (the driver not simulating) fails at the INSERT:
\* no content load, no body, no commit, the INSERT's error is the first error
\* event, a rollback is attempted and the table is as before.  When the
\* INSERT is only emitted the rows of the table stay as before too.
C17_ReapplyFailsWhenExecuted ==
    /\ \A v \in Versions : table.rows[v] <= 1 /\ tx.rows[v] <= 1
    /\ (pc # "idle" /\ AlreadyApplied /\ Called("insert")) =>
          /\ CalledErr("insert")
          /\ ~Called("read_content") /\ ~Attempted("body") /\ ~Called("commit")
          /\ table = tableAtStart
          /\ Handled => (Called("rollback") /\ \E i \in ErrIdx : sent[i] = Err("insert"))
    /\ (pc # "idle" /\ AlreadyApplied /\ ~simulate /\ pc \notin {"send_file", "begin", "begin_err", "create", "exec_err", "bookkeeping"}
          /\ CalledOk("create")) => CalledErr("insert")
    /\ (pc # "idle" /\ AlreadyApplied /\ ~Called("insert")) => table.rows = tableAtStart.rows

\* A second Apply of a version applied by the first run: INSERT failed, rolled
\* back, the single row is still there.
C17_Witness ==
    /\ pc = "done" /\ AlreadyApplied
    /\ CalledErr("insert") /\ CalledOk("rollback")
    /\ table.rows[f.Version] = 1

\* C18: in one run commit and rollback exclude each other and each is called
\* at most once; rollback is called only after a statement's error was
\* emitted, commit only while no error was emitted; commit or rollback is the
\* last call on the transaction.
CallsOf(q) == {i \in 1..Len(txlog) : txlog[i].op = q}

C18_CommitRollbackExclusive ==
    /\ Cardinality(CallsOf("commit")) <= 1
    /\ Cardinality(CallsOf("rollback")) <= 1
    /\ ~(Called("commit") /\ Called("rollback"))
    /\ pc = "rollback" => (NumErrors = 1 /\ sent[Len(sent)].what \in Stmts)
    /\ Called("rollback") => \E i \in ErrIdx : sent[i].what \in Stmts
    /\ pc = "commit" => NumErrors = 0
    /\ Called("commit") => \A i \in ErrIdx : (sent[i] = Err("commit") /\ CalledErr("commit"))
    /\ \A i \in CallsOf("commit") \cup CallsOf("rollback") : i = Len(txlog)
    /\ Called("commit") \/ Called("rollback") => pc \notin {"create", "bookkeeping", "read_content", "body"}

\* A Revert whose DELETE failed and was rolled back: one error, one rollback, no commit.
C18_Witness ==
    /\ pc = "done"
    /\ CalledErr("delete") /\ CalledOk("rollback")
    /\ NumErrors = 1

\* C19: a run for a file whose direction is neither Up nor Down never executes
\* or emits an INSERT or DELETE, so the rows of schema_migrations stay as they
\* were before the run; it still performs the table creation, the content load
\* and the body (executed, or emitted when simulating) and commits, and the
\* committed run has emitted no error.
C19_OtherDirectionNoBookkeeping ==
    (pc # "idle" /\ f.Direction \notin {Up, Down}) =>
        /\ ~Attempted("insert") /\ ~Attempted("delete")
        /\ tx.state # "none" => tx.rows = tableAtStart.rows
        /\ table.rows = tableAtStart.rows
        /\ Called("read_content") => Performed("create")
        /\ tx.state = "committed" =>
              /\ Performed("create") /\ CalledOk("read_content") /\ Performed("body")
              /\ NumErrors = 0
              /\ ~simulate => (CalledOk("create") /\ CalledOk("body") /\ table.exists)

\* A committed real run of such a file on a table that holds a row: table
\* created, content loaded, body executed, committed, the row untouched.
C19_Witness ==
    /\ pc = "done" /\ f.Direction \notin {Up, Down}
    /\ txlog = <<Call("begin", TRUE), Call("create", TRUE), Call("read_content", TRUE),
                 Call("body", TRUE), Call("commit", TRUE)>>
    /\ NumErrors = 0
    /\ table.rows[f.Version] = 1

\* C20: whenever the body-failure path resolves a location, the offset it
\* passes to the resolver (the engine's position minus one) is an offset into
\* the content: 0 <= offset < len(f.Content).
C20_ResolverOffsetInContent ==
    \A i \in BodyErrIdx :
        sent[i].loc => (0 <= sent[i].offset /\ sent[i].offset < Len(f.Content))

====
